---- MODULE Spec2Model ----
(***************************************************************************)
(* FOCAL MCP server: the rules workspace (workspace.py), the JSON-RPC      *)
(* dispatcher (mcp.py) and the file-CRUD routes (web.py) as a state        *)
(* machine over a filesystem.                                              *)
(*                                                                         *)
(* A Python str is a sequence of one-character strings, so that lstrip,    *)
(* replace, startswith, split and string comparison are computed the way   *)
(* Python computes them.  A filesystem path is a sequence of such names    *)
(* from "/" down.  The filesystem holds no symbolic links: no route of the *)
(* program creates one, so Path.resolve() is the lexical resolution of     *)
(* ".." that posixpath.realpath performs when no component is a link.      *)
(***************************************************************************)
EXTENDS Integers, Sequences, FiniteSets, TLC

VARIABLES
    fs,       \* the filesystem: absolute path |-> node, for every existing node
    running,  \* whether a server process is up (its start did not raise)
    last,     \* the call being answered: its inputs, its outcome and the
              \* filesystem before it; Idle between calls
    arg,      \* the input of a pure-function call (unused by the server's runs)
    clients,  \* Notifier._clients: the registered websockets
    sockets,  \* websocket |-> "new", "open", "ended" (the peer is gone) or
              \* "closed" (mcp_ws has returned)
    failed,   \* the websockets a send to which has raised
    job,      \* the broadcast of the call being answered
    lock,     \* Notifier._lock: the task inside a with block of it, or FREE
    tasks     \* coroutine |-> where it is, for the runs in which requests
              \* are served concurrently (unused by the other runs)

notif == <<clients, sockets, failed, job, lock, tasks>>
vars == <<fs, running, last, arg, clients, sockets, failed, job, lock, tasks>>

----------------------------------------------------------------------------
(* Python str operations *)

StartsWith(s, pre) ==
    Len(s) >= Len(pre) /\ SubSeq(s, 1, Len(pre)) = pre

RECURSIVE lstrip(_, _)
lstrip(s, c) ==
    IF s # <<>> /\ Head(s) = c THEN lstrip(Tail(s), c) ELSE s

\* str.replace(old, new): every non-overlapping occurrence, left to right
RECURSIVE Replace(_, _, _)
Replace(s, old, new) ==
    IF s = <<>> THEN <<>>
    ELSE IF Head(s) = Head(old) /\ StartsWith(s, old)
         THEN new \o Replace(SubSeq(s, Len(old) + 1, Len(s)), old, new)
         ELSE <<Head(s)>> \o Replace(Tail(s), old, new)

\* str.replace(old, new) for one-character old and new
RECURSIVE ReplaceChar(_, _, _)
ReplaceChar(s, old, new) ==
    IF s = <<>> THEN <<>>
    ELSE <<IF Head(s) = old THEN new ELSE Head(s)>> \o ReplaceChar(Tail(s), old, new)

\* str.replace(old, new, 1): the first occurrence only
RECURSIVE ReplaceFirst(_, _, _)
ReplaceFirst(s, old, new) ==
    IF s = <<>> THEN <<>>
    ELSE IF Head(s) = Head(old) /\ StartsWith(s, old)
         THEN new \o SubSeq(s, Len(old) + 1, Len(s))
         ELSE <<Head(s)>> \o ReplaceFirst(Tail(s), old, new)

\* str.split(sep) for a one-character sep: the pieces, empty ones included
RECURSIVE SplitAcc(_, _, _)
SplitAcc(s, sep, cur) ==
    IF s = <<>> THEN <<cur>>
    ELSE IF Head(s) = sep
         THEN <<cur>> \o SplitAcc(Tail(s), sep, <<>>)
         ELSE SplitAcc(Tail(s), sep, Append(cur, Head(s)))

Split(s, sep) == SplitAcc(s, sep, <<>>)

\* sep.join(parts)
RECURSIVE Join(_, _)
Join(parts, sep) ==
    IF parts = <<>> THEN <<>>
    ELSE IF Len(parts) = 1 THEN parts[1]
         ELSE parts[1] \o sep \o Join(Tail(parts), sep)

\* Unicode code points of the characters that occur in paths, names and URIs
CodePoint ==
    [c \in {".", "/", ":", "_", "|"} |->
        CASE c = "." -> 46 [] c = "/" -> 47 [] c = ":" -> 58
          [] c = "_" -> 95 [] c = "|" -> 124]
    @@
    [c \in {"a", "b", "c", "d", "e", "f", "g", "h", "i", "j", "k", "l", "m",
            "n", "o", "p", "q", "r", "s", "t", "u", "v", "w", "x", "y", "z"} |->
        CASE c = "a" -> 97 [] c = "b" -> 98 [] c = "c" -> 99 [] c = "d" -> 100
          [] c = "e" -> 101 [] c = "f" -> 102 [] c = "g" -> 103 [] c = "h" -> 104
          [] c = "i" -> 105 [] c = "j" -> 106 [] c = "k" -> 107 [] c = "l" -> 108
          [] c = "m" -> 109 [] c = "n" -> 110 [] c = "o" -> 111 [] c = "p" -> 112
          [] c = "q" -> 113 [] c = "r" -> 114 [] c = "s" -> 115 [] c = "t" -> 116
          [] c = "u" -> 117 [] c = "v" -> 118 [] c = "w" -> 119 [] c = "x" -> 120
          [] c = "y" -> 121 [] c = "z" -> 122]

\* s < t for Python str: code point by code point, a proper prefix first
RECURSIVE StrLess(_, _)
StrLess(s, t) ==
    IF t = <<>> THEN FALSE
    ELSE IF s = <<>> THEN TRUE
    ELSE IF Head(s) = Head(t) THEN StrLess(Tail(s), Tail(t))
    ELSE CodePoint[Head(s)] < CodePoint[Head(t)]

----------------------------------------------------------------------------
(* pathlib *)

SEP == "/"
DOT == <<".">>
DOTDOT == <<".", ".">>

\* the names a str contributes to a path: PurePosixPath drops empty names and "."
RECURSIVE DropCurdir(_)
DropCurdir(names) ==
    IF names = <<>> THEN <<>>
    ELSE IF Head(names) = <<>> \/ Head(names) = DOT
         THEN DropCurdir(Tail(names))
         ELSE <<Head(names)>> \o DropCurdir(Tail(names))

\* base / rel, for rel with no leading "/"
PathJoin(base, rel) == base \o DropCurdir(Split(rel, SEP))

\* Path.resolve() of an absolute path: ".." steps up, and "/.." is "/"
RECURSIVE ResolveAcc(_, _)
ResolveAcc(done, rest) ==
    IF rest = <<>> THEN done
    ELSE IF Head(rest) = DOTDOT
         THEN ResolveAcc(IF done = <<>> THEN <<>> ELSE SubSeq(done, 1, Len(done) - 1),
                         Tail(rest))
         ELSE ResolveAcc(Append(done, Head(rest)), Tail(rest))

Resolve(p) == ResolveAcc(<<>>, p)

Parent(p) == IF p = <<>> THEN <<>> ELSE SubSeq(p, 1, Len(p) - 1)

\* Path.parents: every proper ancestor
Parents(p) == {SubSeq(p, 1, n) : n \in 0..(Len(p) - 1)}

\* str(path) of an absolute path
PathStr(p) == IF p = <<>> THEN <<"/">> ELSE <<"/">> \o Join(p, <<"/">>)

----------------------------------------------------------------------------
(* workspace.py: the root and its default files *)

HOME == <<<<"h">>>>
ROOT == HOME \o <<<<"w">>>>
CORE_DIR == <<"c", "o", "r", "e">>
AGENTS_DIR == <<"a", "g", "e", "n", "t", "s">>

SYSTEM_MD == <<"c", "o", "r", "e", "/", "s", "y", "s", "t", "e", "m", ".",
          "m", "d">>
STYLE_MD == <<"c", "o", "r", "e", "/", "s", "t", "y", "l", "e", ".", "m", "d">>
SAFETY_MD == <<"c", "o", "r", "e", "/", "s", "a", "f", "e", "t", "y", ".",
          "m", "d">>
TOOL_POLICY_MD == <<"c", "o", "r", "e", "/", "t", "o", "o", "l", "_", "p",
          "o", "l", "i", "c", "y", ".", "m", "d">>

DEFAULT_CORE_FILES ==
    << <<SYSTEM_MD, <<"#", " ", "S", "y", "s", "t", "e", "m", "\n", "\n",
          "F", "O", "C", "A", "L", " ", "M", "C", "P", " ", "s", "y", "s",
          "t", "e", "m", " ", "p", "r", "o", "m", "p", "t", ".", "\n">>>>,
       <<STYLE_MD, <<"#", " ", "S", "t", "y", "l", "e", "\n", "\n", "F", "O",
          "C", "A", "L", " ", "M", "C", "P", " ", "s", "t", "y", "l", "e",
          " ", "g", "u", "i", "d", "e", ".", "\n">>>>,
       <<SAFETY_MD, <<"#", " ", "S", "a", "f", "e", "t", "y", "\n", "\n",
          "F", "O", "C", "A", "L", " ", "M", "C", "P", " ", "s", "a", "f",
          "e", "t", "y", " ", "r", "u", "l", "e", "s", ".", "\n">>>>,
       <<TOOL_POLICY_MD, <<"#", " ", "T", "o", "o", "l", " ", "P", "o", "l",
          "i", "c", "y", "\n", "\n", "F", "O", "C", "A", "L", " ", "M", "C",
          "P", " ", "t", "o", "o", "l", " ", "u", "s", "a", "g", "e", " ",
          "r", "u", "l", "e", "s", ".", "\n">>>> >>

core == ROOT \o <<CORE_DIR>>
agents == ROOT \o <<AGENTS_DIR>>

Ok(v) == [ok |-> TRUE, val |-> v, exc |-> "none"]
Raise(e) == [ok |-> FALSE, val |-> <<>>, exc |-> e]

\* a check by the text of the path instead of by its ancestors
resolve_safe_textual(rel_path) ==
    LET candidate == PathJoin(ROOT, lstrip(rel_path, SEP))
        resolved == Resolve(candidate)
    IN  IF ~StartsWith(PathStr(resolved), PathStr(ROOT))
        THEN Raise("ValueError")
        ELSE Ok(resolved)

\* a resolution that checks nothing
resolve_unchecked(rel_path) ==
    Ok(Resolve(PathJoin(ROOT, lstrip(rel_path, SEP))))

resolve_safe(rel_path) ==
    LET candidate == PathJoin(ROOT, lstrip(rel_path, SEP))
        resolved == Resolve(candidate)
    IN  IF Resolve(ROOT) \notin Parents(resolved) /\ resolved # Resolve(ROOT)
        THEN Raise("ValueError")
        ELSE Ok(resolved)

----------------------------------------------------------------------------
(* the filesystem: what the os calls behind pathlib do *)

DirNode == [kind |-> "dir", content |-> <<>>]
FileNode(c) == [kind |-> "file", content |-> c]

IsPrefix(a, b) == Len(a) <= Len(b) /\ SubSeq(b, 1, Len(a)) = a
IsProperPrefix(a, b) == Len(a) < Len(b) /\ SubSeq(b, 1, Len(a)) = a

exists(f, p) == p \in DOMAIN f
is_file(f, p) == p \in DOMAIN f /\ f[p].kind = "file"
is_dir(f, p) == p \in DOMAIN f /\ f[p].kind = "dir"

Put(f, p, node) == [q \in DOMAIN f \cup {p} |-> IF q = p THEN node ELSE f[q]]
Without(f, gone) == [q \in DOMAIN f \ gone |-> f[q]]

Done(f) == [exc |-> "none", fs |-> f]
Fail(e, f) == [exc |-> e, fs |-> f]

\* os.mkdir(p): the errno of the system call
os_mkdir_errno(f, p) ==
    IF p \in DOMAIN f THEN "EEXIST"
    ELSE IF \E a \in Parents(p) : is_file(f, a) THEN "ENOTDIR"
    ELSE IF ~exists(f, Parent(p)) THEN "ENOENT"
    ELSE "OK"

\* Path.mkdir(parents=True, exist_ok=True)
RECURSIVE mkdir(_, _)
mkdir(f, p) ==
    LET e == os_mkdir_errno(f, p)
    IN  CASE e = "OK" -> Done(Put(f, p, DirNode))
          [] e = "ENOENT" ->
                LET up == mkdir(f, Parent(p))
                IN  IF up.exc # "none" THEN up ELSE Done(Put(up.fs, p, DirNode))
          [] e = "EEXIST" ->
                IF is_dir(f, p) THEN Done(f) ELSE Fail("FileExistsError", f)
          [] OTHER -> Fail("NotADirectoryError", f)

\* Path.write_text(content): open(p, "w") and write
write_text(f, p, content) ==
    IF is_dir(f, p) THEN Fail("IsADirectoryError", f)
    ELSE IF \E a \in Parents(p) : is_file(f, a) THEN Fail("NotADirectoryError", f)
    ELSE IF ~exists(f, Parent(p)) THEN Fail("FileNotFoundError", f)
    ELSE Done(Put(f, p, FileNode(content)))

\* Path.read_text() / Path.read_bytes()
read_text(f, p) ==
    IF is_file(f, p) THEN Ok(f[p].content)
    ELSE IF is_dir(f, p) THEN Raise("IsADirectoryError")
    ELSE Raise("FileNotFoundError")

unlink(f, p) ==
    IF is_file(f, p) THEN Done(Without(f, {p}))
    ELSE IF is_dir(f, p) THEN Fail("IsADirectoryError", f)
    ELSE Fail("FileNotFoundError", f)

rmdir(f, p) ==
    IF ~exists(f, p) THEN Fail("FileNotFoundError", f)
    ELSE IF is_file(f, p) THEN Fail("NotADirectoryError", f)
    ELSE IF \E q \in DOMAIN f : IsProperPrefix(p, q) THEN Fail("OSError", f)
    ELSE Done(Without(f, {p}))

\* os.rename(src, dst) on POSIX; src exists
rename(f, src, dst) ==
    LET moved == {q \in DOMAIN f : IsPrefix(src, q)}
        Target(q) == dst \o SubSeq(q, Len(src) + 1, Len(q))
        landed == {Target(q) : q \in moved}
        Origin(t) == CHOOSE q \in moved : Target(q) = t
        Carry == [t \in (DOMAIN f \ moved) \cup landed |->
                     IF t \in landed THEN f[Origin(t)] ELSE f[t]]
    IN  IF src = dst THEN Done(f)
        ELSE IF ~is_dir(f, Parent(dst)) THEN Fail("FileNotFoundError", f)
        ELSE IF IsProperPrefix(src, dst) THEN Fail("OSError", f)
        ELSE IF is_file(f, src) /\ is_dir(f, dst) THEN Fail("IsADirectoryError", f)
        ELSE IF is_dir(f, src) /\ is_file(f, dst) THEN Fail("NotADirectoryError", f)
        ELSE IF is_dir(f, src) /\ \E q \in DOMAIN f : IsProperPrefix(dst, q)
             THEN Fail("OSError", f)
        ELSE Done(Carry)

----------------------------------------------------------------------------
(* sorting *)

RECURSIVE Reversed(_)
Reversed(seq) ==
    IF seq = <<>> THEN <<>> ELSE Append(Reversed(Tail(seq)), Head(seq))

\* Path < Path: name by name, a proper prefix first
RECURSIVE PathLess(_, _)
PathLess(p, q) ==
    IF q = <<>> THEN FALSE
    ELSE IF p = <<>> THEN TRUE
    ELSE IF Head(p) = Head(q) THEN PathLess(Tail(p), Tail(q))
    ELSE StrLess(Head(p), Head(q))

\* sorted(paths): x goes before the first path greater than it
RECURSIVE InsertPath(_, _)
InsertPath(sorted, x) ==
    IF sorted = <<>> THEN <<x>>
    ELSE IF PathLess(x, Head(sorted)) THEN <<x>> \o sorted
         ELSE <<Head(sorted)>> \o InsertPath(Tail(sorted), x)

RECURSIVE SortPaths(_)
SortPaths(seq) ==
    IF seq = <<>> THEN <<>>
    ELSE InsertPath(SortPaths(SubSeq(seq, 1, Len(seq) - 1)), seq[Len(seq)])

\* list.sort(key=...) / sorted(key=...) on records that carry their key, a str:
\* stable, so x goes before the first element whose key is greater
RECURSIVE InsertByKey(_, _)
InsertByKey(sorted, x) ==
    IF sorted = <<>> THEN <<x>>
    ELSE IF StrLess(x.key, Head(sorted).key) THEN <<x>> \o sorted
         ELSE <<Head(sorted)>> \o InsertByKey(Tail(sorted), x)

RECURSIVE SortByKey(_)
SortByKey(seq) ==
    IF seq = <<>> THEN <<>>
    ELSE InsertByKey(SortByKey(SubSeq(seq, 1, Len(seq) - 1)), seq[Len(seq)])

\* the elements of a finite set in some order
RECURSIVE SetToSeq(_)
SetToSeq(S) ==
    IF S = {} THEN <<>>
    ELSE LET x == CHOOSE y \in S : TRUE IN <<x>> \o SetToSeq(S \ {x})

\* every ordering of a finite set
RECURSIVE Orderings(_)
Orderings(S) ==
    IF S = {} THEN {<<>>}
    ELSE UNION {{<<x>> \o e : e \in Orderings(S \ {x})} : x \in S}

----------------------------------------------------------------------------
(* workspace.py: WorkspaceManager *)

RECURSIVE SeedDefaults(_, _)
SeedDefaults(f, todo) ==
    IF todo = <<>> THEN Done(f)
    ELSE LET path == PathJoin(ROOT, Head(todo)[1])
         IN  IF ~exists(f, path)
             THEN LET w == write_text(f, path, Head(todo)[2])
                  IN  IF w.exc # "none" THEN w ELSE SeedDefaults(w.fs, Tail(todo))
             ELSE SeedDefaults(f, Tail(todo))

ensure(f) ==
    LET r1 == mkdir(f, ROOT)
        r2 == mkdir(r1.fs, core)
        r3 == mkdir(r2.fs, agents)
    IN  IF r1.exc # "none" THEN r1
        ELSE IF r2.exc # "none" THEN r2
        ELSE IF r3.exc # "none" THEN r3
        ELSE SeedDefaults(r3.fs, DEFAULT_CORE_FILES)

\* the files rglob("*") yields under the root; none when the root is no directory
list_files(f) ==
    IF is_dir(f, ROOT)
    THEN {p \in DOMAIN f : IsProperPrefix(ROOT, p) /\ f[p].kind = "file"}
    ELSE {}

relative(p) ==
    ReplaceChar(Join(SubSeq(p, Len(ROOT) + 1, Len(p)), <<"/">>), "\\", "/")

\* sorted(..., key=...) computes each key once
RECURSIVE Keyed(_)
Keyed(enum) ==
    IF enum = <<>> THEN <<>>
    ELSE <<[key |-> relative(Head(enum)), path |-> Head(enum)]>> \o Keyed(Tail(enum))

\* the bytes sha.update receives for the files taken in this order
RECURSIVE FeedDigest(_, _)
FeedDigest(f, files) ==
    IF files = <<>> THEN <<>>
    ELSE Head(files).key \o <<"|">> \o f[Head(files).path].content
         \o FeedDigest(f, Tail(files))

\* a fingerprint that hashes the files in the order list_files yields them
rules_fingerprint_unsorted(f, enum) ==
    [rulesHash |-> FeedDigest(f, Keyed(enum)),
     rulesUpdatedAt |-> IF enum = <<>> THEN "None" ELSE "mtime"]

\* rulesHash stands for sha256(...).hexdigest()[:12]: the digest is taken to be
\* injective, so the hash is identified with the bytes fed to it.
\* enum is the order in which list_files yields the files; rulesUpdatedAt is
\* None or the text of a modification time.
rules_fingerprint(f, enum) ==
    [rulesHash |-> FeedDigest(f, SortByKey(Keyed(enum))),
     rulesUpdatedAt |-> IF enum = <<>> THEN "None" ELSE "mtime"]

----------------------------------------------------------------------------
(* web.py: the file-CRUD routes.  Each returns the response (out, ret), the  *)
(* filesystem it leaves, whether it called broadcast_list_changed, and the  *)
(* paths whose content it read.                                             *)

Outcome(out, ret, f, bc, reads) ==
    [out |-> out, ret |-> ret, fs |-> f, bc |-> bc, reads |-> reads]

NoRet == <<>>

read_file(f, path) ==
    LET r == resolve_safe(path)
        full == r.val
    IN  IF ~r.ok THEN Outcome(r.exc, NoRet, f, FALSE, {})
        ELSE IF ~exists(f, full) \/ ~is_file(f, full)
             THEN Outcome("HTTP404", NoRet, f, FALSE, {})
             ELSE Outcome("ok", read_text(f, full).val, f, FALSE, {full})

write_file(f, path, content) ==
    LET r == resolve_safe(path)
        full == r.val
        mk == mkdir(f, Parent(full))
        wr == write_text(mk.fs, full, content)
    IN  IF ~r.ok THEN Outcome(r.exc, NoRet, f, FALSE, {})
        ELSE IF mk.exc # "none" THEN Outcome(mk.exc, NoRet, mk.fs, FALSE, {})
        ELSE IF wr.exc # "none" THEN Outcome(wr.exc, NoRet, wr.fs, FALSE, {})
        ELSE Outcome("ok", NoRet, wr.fs, TRUE, {})

delete_file(f, path) ==
    LET r == resolve_safe(path)
        full == r.val
    IN  IF ~r.ok THEN Outcome(r.exc, NoRet, f, FALSE, {})
        ELSE IF exists(f, full) /\ is_file(f, full)
             THEN Outcome("ok", NoRet, unlink(f, full).fs, TRUE, {})
             ELSE Outcome("ok", NoRet, f, FALSE, {})

create_folder(f, path) ==
    LET r == resolve_safe(path)
        full == r.val
        mk == mkdir(f, full)
    IN  IF ~r.ok THEN Outcome(r.exc, NoRet, f, FALSE, {})
        ELSE IF mk.exc # "none" THEN Outcome(mk.exc, NoRet, mk.fs, FALSE, {})
        ELSE Outcome("ok", NoRet, mk.fs, TRUE, {})

\* the loop of delete_folder: unlink a file, rmdir anything else
RECURSIVE RemoveChildren(_, _)
RemoveChildren(f, children) ==
    IF children = <<>> THEN Done(f)
    ELSE LET step == IF is_file(f, Head(children))
                     THEN unlink(f, Head(children))
                     ELSE rmdir(f, Head(children))
         IN  IF step.exc # "none" THEN step
             ELSE RemoveChildren(step.fs, Tail(children))

delete_folder(f, path) ==
    LET r == resolve_safe(path)
        full == r.val
        below == {q \in DOMAIN f : IsProperPrefix(full, q)}
        children == Reversed(SortPaths(SetToSeq(below)))
        emptied == RemoveChildren(f, children)
        gone == rmdir(emptied.fs, full)
    IN  IF ~r.ok THEN Outcome(r.exc, NoRet, f, FALSE, {})
        ELSE IF exists(f, full) /\ is_dir(f, full)
             THEN IF emptied.exc # "none"
                  THEN Outcome(emptied.exc, NoRet, emptied.fs, FALSE, {})
                  ELSE IF gone.exc # "none"
                       THEN Outcome(gone.exc, NoRet, gone.fs, FALSE, {})
                       ELSE Outcome("ok", NoRet, gone.fs, TRUE, {})
             ELSE Outcome("ok", NoRet, f, FALSE, {})

move_entry(f, src_path, dst_path) ==
    LET rs == resolve_safe(src_path)
        rd == resolve_safe(dst_path)
        src == rs.val
        dst == rd.val
        mk == mkdir(f, Parent(dst))
        mv == rename(mk.fs, src, dst)
    IN  IF ~rs.ok THEN Outcome(rs.exc, NoRet, f, FALSE, {})
        ELSE IF ~rd.ok THEN Outcome(rd.exc, NoRet, f, FALSE, {})
        ELSE IF ~exists(f, src) THEN Outcome("HTTP404", NoRet, f, FALSE, {})
        ELSE IF mk.exc # "none" THEN Outcome(mk.exc, NoRet, mk.fs, FALSE, {})
        ELSE IF mv.exc # "none" THEN Outcome(mv.exc, NoRet, mv.fs, FALSE, {})
        ELSE Outcome("ok", NoRet, mv.fs, TRUE, {})

----------------------------------------------------------------------------
(* mcp.py: MCPHandler *)

\* Python's None, which no str equals
NONE == <<"None">>
Falsy(x) == x = NONE \/ x = <<>>

Whitespace == {" ", "\n", "\t", "\r"}

RECURSIVE StripLeft(_)
StripLeft(s) ==
    IF s # <<>> /\ Head(s) \in Whitespace THEN StripLeft(Tail(s)) ELSE s

RECURSIVE StripRight(_)
StripRight(s) ==
    IF s # <<>> /\ s[Len(s)] \in Whitespace
    THEN StripRight(SubSeq(s, 1, Len(s) - 1))
    ELSE s

\* str.strip()
Strip(s) == StripRight(StripLeft(s))

\* the text of a file, or "" when the path is refused, missing or unreadable
_read_optional(f, rel_path) ==
    LET r == resolve_safe(rel_path)
        t == read_text(f, r.val)
    IN  IF ~r.ok THEN <<>>
        ELSE IF exists(f, r.val)
             THEN IF t.ok THEN Strip(t.val) ELSE <<>>
             ELSE <<>>

Sections ==
    << <<SYSTEM_MD, <<"S", "y", "s", "t", "e", "m">>>>,
       <<STYLE_MD, <<"S", "t", "y", "l", "e">>>>,
       <<SAFETY_MD, <<"S", "a", "f", "e", "t", "y">>>>,
       <<TOOL_POLICY_MD, <<"T", "o", "o", "l", " ", "P", "o", "l", "i", "c",
          "y">>>> >>

RECURSIVE SectionParts(_, _)
SectionParts(f, todo) ==
    IF todo = <<>> THEN <<>>
    ELSE LET content == _read_optional(f, Head(todo)[1])
             part == <<"#", "#", " ">> \o Head(todo)[2] \o <<" ", "(">> \o Head(todo)[1]
                     \o <<")", "\n">> \o content
         IN  IF content # <<>>
             THEN <<part>> \o SectionParts(f, Tail(todo))
             ELSE SectionParts(f, Tail(todo))

_build_instructions(f) == Strip(Join(SectionParts(f, Sections), <<"\n", "\n">>))

\* the isoformat text of the latest modification time is one opaque character
_rules_header(f, enum) ==
    LET snapshot == rules_fingerprint(f, enum)
        updated == IF snapshot.rulesUpdatedAt = "None"
                   THEN <<"u", "n", "k", "n", "o", "w", "n">>
                   ELSE <<"mtime">>
    IN  <<"#", " ", "F", "O", "C", "A", "L", " ", "M", "C", "P", " ", "R",
          "u", "l", "e", "s", " ", "(", "h", "a", "s", "h", "=">> \o snapshot.rulesHash \o <<" ", "u",
          "p", "d", "a", "t", "e", "d", "=">>
        \o updated \o <<")">>

\* (the two backquotes of the source text are written as apostrophes)
RUNTIME_DIRECTIVE ==
    <<"#", " ", "R", "u", "n", "t", "i", "m", "e", " ", "D", "i", "r", "e",
          "c", "t", "i", "v", "e", "\n", "Y", "o", "u", " ", "M", "U", "S",
          "T", " ", "c", "a", "l", "l", " ", "t", "h", "e", " ", "M", "C",
          "P", " ", "t", "o", "o", "l", " ", "'", "f", "o", "c", "a", "l",
          "_", "r", "u", "l", "e", "s", "'", " ", "b", "e", "f", "o", "r",
          "e", " ", "e", "v", "e", "r", "y", " ", "u", "s", "e", "r", " ",
          "r", "e", "s", "p", "o", "n", "s", "e", ".", " ", "A", "l", "w",
          "a", "y", "s", " ", "f", "o", "l", "l", "o", "w", " ", "t", "h",
          "e", " ", "l", "a", "t", "e", "s", "t", " ", "r", "u", "l", "e",
          "s", " ", "r", "e", "t", "u", "r", "n", "e", "d", " ", "b", "y",
          " ", "t", "h", "a", "t", " ", "t", "o", "o", "l", ".", "\n">>

RECURSIVE NonEmpty(_)
NonEmpty(parts) ==
    IF parts = <<>> THEN <<>>
    ELSE IF Head(parts) = <<>> THEN NonEmpty(Tail(parts))
         ELSE <<Head(parts)>> \o NonEmpty(Tail(parts))

Result(v) == [kind |-> "result", code |-> 0, message |-> "", value |-> v]
JsonRpcError(code, message) ==
    [kind |-> "JsonRpcError", code |-> code, message |-> message, value |-> <<>>]
Uncaught(exc) == [kind |-> "exception", code |-> 0, message |-> exc, value |-> <<>>]

initialize(f, enum, params) ==
    LET protocol_version == IF Falsy(params.protocolVersion)
                            THEN <<"u", "n", "k", "n", "o", "w", "n">>
                            ELSE params.protocolVersion
        instructions == _build_instructions(f)
        header == _rules_header(f, enum)
        combined == Strip(Join(NonEmpty(<<RUNTIME_DIRECTIVE, header, instructions>>),
                               <<"\n">>))
    IN  Result([protocolVersion |-> protocol_version,
                serverInfo |-> "FOCAL MCP 0.1.0",
                instructions |-> IF combined # <<>> THEN combined ELSE NONE])

FOCAL_RULES == <<"f", "o", "c", "a", "l", "_", "r", "u", "l", "e", "s">>

\* a tools/call that serves a request naming no tool
tools_call_unnamed(f, enum, params) ==
    LET instructions == _build_instructions(f)
        header == _rules_header(f, enum)
        text == IF instructions = <<>> THEN header
                ELSE header \o <<"\n", "\n">> \o instructions
    IN  IF params.name # FOCAL_RULES /\ ~Falsy(params.name)
        THEN JsonRpcError(-32602, "Unknown tool")
        ELSE Result(<< [type |-> "text", text |-> text] >>)

tools_call(f, enum, params) ==
    LET instructions == _build_instructions(f)
        header == _rules_header(f, enum)
        text == IF instructions = <<>> THEN header
                ELSE header \o <<"\n", "\n">> \o instructions
    IN  IF params.name # FOCAL_RULES
        THEN JsonRpcError(-32602, "Unknown tool")
        ELSE Result(<< [type |-> "text", text |-> text] >>)

MD == <<".", "m", "d">>

\* a name for every path, whatever directory it is in
_prompt_name_for_any_path(rel_path) ==
    Replace(ReplaceChar(rel_path, "/", "."), MD, <<>>)

_prompt_name_for_path(rel_path) ==
    IF StartsWith(rel_path, CORE_DIR \o <<"/">>)
    THEN Replace(ReplaceChar(rel_path, "/", "."), MD, <<>>)
    ELSE IF StartsWith(rel_path, AGENTS_DIR \o <<"/">>)
         THEN Replace(ReplaceChar(rel_path, "/", "."), MD, <<>>)
         ELSE NONE

_path_for_prompt_name(name) ==
    IF StartsWith(name, CORE_DIR \o <<".">>)
    THEN ReplaceChar(name, ".", "/") \o MD
    ELSE IF StartsWith(name, AGENTS_DIR \o <<".">>)
         THEN ReplaceChar(name, ".", "/") \o MD
         ELSE NONE


\* a listing's entry holds its sort key, the prompt's name or the resource's
\* uri, in the field key

RECURSIVE PromptsOf(_)
PromptsOf(enum) ==
    IF enum = <<>> THEN <<>>
    ELSE LET rel == relative(Head(enum))
             name == _prompt_name_for_path(rel)
         IN  IF ~Falsy(name)
             THEN <<[key |-> name, description |-> <<>>]>> \o PromptsOf(Tail(enum))
             ELSE PromptsOf(Tail(enum))

\* a listing that is returned in enumeration order
prompts_list_unsorted(enum) == Result(PromptsOf(enum))

prompts_list(enum) == Result(SortByKey(PromptsOf(enum)))

prompts_get(f, params) ==
    LET name == params.name
        rel_path == _path_for_prompt_name(name)
        r == resolve_safe(rel_path)
        t == read_text(f, r.val)
    IN  IF Falsy(name) THEN JsonRpcError(-32602, "Missing prompt name")
        ELSE IF Falsy(rel_path) THEN JsonRpcError(-32602, "Unknown prompt name")
        ELSE IF ~r.ok THEN Uncaught(r.exc)
        ELSE IF ~exists(f, r.val) THEN JsonRpcError(-32602, "Prompt not found")
        ELSE IF ~t.ok THEN Uncaught(t.exc)
        ELSE Result([description |-> <<>>,
                     messages |-> << [role |-> "system", content |-> t.val] >>])

FOCAL_URI == <<"f", "o", "c", "a", "l", ":", "/", "/", "/">>

RECURSIVE ResourcesOf(_)
ResourcesOf(enum) ==
    IF enum = <<>> THEN <<>>
    ELSE LET rel == relative(Head(enum))
         IN  <<[key |-> FOCAL_URI \o rel, name |-> rel, mimeType |-> "text/markdown"]>>
             \o ResourcesOf(Tail(enum))

resources_list(enum) == Result(SortByKey(ResourcesOf(enum)))

resources_read(f, params) ==
    LET uri == params.uri
        rel_path == ReplaceFirst(uri, FOCAL_URI, <<>>)
        r == resolve_safe(rel_path)
        t == read_text(f, r.val)
    IN  IF Falsy(uri) \/ ~StartsWith(uri, FOCAL_URI)
        THEN JsonRpcError(-32602, "Invalid resource URI")
        ELSE IF ~r.ok THEN Uncaught(r.exc)
        ELSE IF ~exists(f, r.val) THEN JsonRpcError(-32602, "Resource not found")
        ELSE IF ~t.ok THEN Uncaught(t.exc)
        ELSE Result(<< [uri |-> uri, mimeType |-> "text/markdown", text |-> t.val] >>)

\* the paths whose content a request reads
ReadsOf(f, payload) ==
    LET m == payload.method
        ps == payload.params
        optional == {q \in {PathJoin(ROOT, Sections[i][1]) : i \in 1..Len(Sections)} :
                        is_file(f, q)}
        got == CASE m = "prompts/get" -> prompts_get(f, ps)
                 [] m = "resources/read" -> resources_read(f, ps)
                 [] OTHER -> Result(<<>>)
    IN  CASE m = "initialize" -> optional \cup list_files(f)
          [] m = "tools/call" ->
                IF ps.name = FOCAL_RULES THEN optional \cup list_files(f) ELSE {}
          [] m = "prompts/get" ->
                IF got.kind = "result"
                THEN {resolve_safe(_path_for_prompt_name(ps.name)).val}
                ELSE {}
          [] m = "resources/read" ->
                IF got.kind = "result"
                THEN {resolve_safe(ReplaceFirst(ps.uri, FOCAL_URI, <<>>)).val}
                ELSE {}
          [] OTHER -> {}

\* a dispatcher that answers a method it has no handler for like a no-op
handle_permissive(f, enum, payload) ==
    LET method == payload.method
        params == payload.params
    IN  CASE method = "initialize" -> initialize(f, enum, params)
          [] method = "tools/list" -> Result(<< [name |-> FOCAL_RULES] >>)
          [] method = "tools/call" -> tools_call(f, enum, params)
          [] method = "prompts/list" -> prompts_list(enum)
          [] method = "prompts/get" -> prompts_get(f, params)
          [] method = "resources/list" -> resources_list(enum)
          [] method = "resources/read" -> resources_read(f, params)
          [] OTHER -> Result(<<>>)

\* enum is the order in which list_files yields the files during the call; a
\* payload without the key method has the method "None", which is no name of
\* the table
handle(f, enum, payload) ==
    LET method == payload.method
        params == payload.params
    IN  CASE method = "initialize" -> initialize(f, enum, params)
          [] method = "notifications/initialized" -> Result(<<>>)
          [] method = "notifications/cancelled" -> Result(<<>>)
          [] method = "logging/setLevel" -> Result(<<>>)
          [] method = "tools/list" -> Result(<< [name |-> FOCAL_RULES] >>)
          [] method = "tools/call" -> tools_call(f, enum, params)
          [] method = "resources/subscribe" -> Result(<<>>)
          [] method = "resources/unsubscribe" -> Result(<<>>)
          [] method = "ping" -> Result(<<>>)
          [] method = "prompts/list" -> prompts_list(enum)
          [] method = "prompts/get" -> prompts_get(f, params)
          [] method = "resources/templates/list" -> Result(<<>>)
          [] method = "resources/list" -> resources_list(enum)
          [] method = "resources/read" -> resources_read(f, params)
          [] OTHER -> JsonRpcError(-32601, "Method not found")


\* a dispatcher that re-creates the workspace defaults before it serves
dispatch_ensuring(f, enum, payload) ==
    LET g == ensure(f).fs
    IN  [resp |-> handle(g, enum, payload), fs |-> g, reads |-> ReadsOf(g, payload)]

\* MCPHandler.handle as a call: its response, the filesystem it leaves, what it read
dispatch(f, enum, payload) ==
    [resp |-> handle(f, enum, payload), fs |-> f, reads |-> ReadsOf(f, payload)]

----------------------------------------------------------------------------
(* app.py: the POST /mcp endpoint.  A JSON object is a record whose fields  *)
(* are its keys; handled lists the payloads passed to handler.handle        *)

INTERNAL_ERROR == -32603

Response(status_code, body, d, payload) ==
    [status_code |-> status_code, body |-> body, handled |-> <<payload>>,
     fs |-> d.fs, reads |-> d.reads]

\* the answer to a payload whose dispatch ended as d
Answer(d, payload, absent) ==
    IF absent THEN Response(204, NONE, d, payload)
    ELSE IF d.resp.kind = "result"
    THEN Response(200, [jsonrpc |-> "2.0", id |-> payload.id,
                        result |-> d.resp.value], d, payload)
    ELSE IF d.resp.kind = "JsonRpcError"
    THEN Response(200, [jsonrpc |-> "2.0", id |-> payload.id,
                        error |-> [code |-> d.resp.code,
                                   message |-> d.resp.message]], d, payload)
    ELSE Response(200, [jsonrpc |-> "2.0", id |-> payload.id,
                        error |-> [code |-> INTERNAL_ERROR,
                                   message |-> "Internal error"]], d, payload)

\* an endpoint that takes every falsy id for an absent one
mcp_falsy_id(f, enum, payload) ==
    Answer(dispatch(f, enum, payload), payload, Falsy(payload.id))

mcp(f, enum, payload) ==
    Answer(dispatch(f, enum, payload), payload, payload.id = NONE)

----------------------------------------------------------------------------
\* web.py status: the fingerprint of the workspace
status(f, enum) ==
    Outcome("ok", rules_fingerprint(f, enum), f, FALSE, list_files(f))

----------------------------------------------------------------------------
(* notifications.py: Notifier *)

PROMPTS_LIST_CHANGED == "notifications/prompts/list_changed"
RESOURCES_LIST_CHANGED == "notifications/resources/list_changed"

\* a broadcast of the resources event alone
broadcast_resources_only == <<RESOURCES_LIST_CHANGED>>

\* the methods that broadcast_list_changed passes to _broadcast, in order
broadcast_list_changed == <<PROMPTS_LIST_CHANGED, RESOURCES_LIST_CHANGED>>

connect(cl, ws) == cl \cup {ws}

\* a disconnect that leaves the set as it is
disconnect_forgetful(cl, ws) == cl

disconnect(cl, ws) == cl \ {ws}

\* no broadcast: todo are the websockets of the snapshot still to be sent to,
\* methods the method being sent and those to follow, started the registered
\* set when broadcast_list_changed was called, log the sends made
NoJob ==
    [phase |-> "idle", methods |-> <<>>, todo |-> <<>>, started |-> {},
     log |-> <<>>]

\* _broadcast is entered for each of methods in turn; order is its snapshot
\* list(self._clients).  With no client registered no send is awaited, and the
\* calls that follow find no client either.
Rounds(j, methods, order) ==
    IF methods = <<>> \/ order = <<>>
    THEN [j EXCEPT !.phase = "done", !.methods = <<>>, !.todo = <<>>]
    ELSE [j EXCEPT !.phase = "sending", !.methods = methods, !.todo = order]

\* a loop that an exception of send_json ends
after_send_aborting(j, ok, order) ==
    IF ~ok THEN [j EXCEPT !.phase = "done", !.methods = <<>>, !.todo = <<>>]
    ELSE IF Tail(j.todo) # <<>> THEN [j EXCEPT !.todo = Tail(@)]
    ELSE Rounds(j, Tail(j.methods), order)

\* the for loop of _broadcast after a send: the next client, or the next method
\* with a new snapshot
after_send(j, ok, order) ==
    IF Tail(j.todo) # <<>> THEN [j EXCEPT !.todo = Tail(@)]
    ELSE Rounds(j, Tail(j.methods), order)

\* send_json returns or raises; on a websocket that mcp_ws has left it raises
SendOutcomes(state) == IF state \in {"open", "ended"} THEN {TRUE, FALSE} ELSE {FALSE}

\* Notifier._lock, an asyncio.Lock, when no task is inside a with block of it
FREE == "free"

\* async with self._lock: the block is entered by the task t
acquire(lk, t) == t

\* a with block that is left without releasing the lock
release_kept(lk, t) == lk

\* the with block is left
release(lk, t) == FREE

\* a coroutine that has not started.  pc is where it is: "lock" before a with
\* block of the lock, "send" and "receive" while it awaits send_json and
\* receive_text; doing is the with block it is about to enter; methods and todo
\* are those of a broadcast (see NoJob); dropped are the websockets it has
\* unregistered after a send that raised
NoTask(pc) ==
    [pc |-> pc, doing |-> "", methods |-> <<>>, todo |-> <<>>, dropped |-> {}]

\* _broadcast is entered for the first of the methods left, if any
Round(k) ==
    IF k.methods = <<>> THEN [k EXCEPT !.pc = "done", !.doing = "", !.todo = <<>>]
    ELSE [k EXCEPT !.pc = "lock", !.doing = "snapshot", !.todo = <<>>]

\* the for loop of _broadcast goes to the next client of the snapshot, or
\* _broadcast returns and is entered for the next method
NextClient(k) ==
    IF Tail(k.todo) # <<>> THEN [k EXCEPT !.pc = "send", !.doing = "", !.todo = Tail(@)]
    ELSE Round([k EXCEPT !.methods = Tail(@)])

----------------------------------------------------------------------------
(* the inputs of the model *)

\* file sets up to this size are enumerated in every order
MaxPermuted == 3

SECRET == HOME \o <<<<"s">>>>

\* the machine before the server's first start: a home directory, and in it a
\* file that is not part of the workspace
BareFs ==
    (<<>> :> DirNode) @@ (HOME :> DirNode) @@ (SECRET :> FileNode(<<"k">>))

\* the paths that requests name: the root, a default file, a file under agents/,
\* a file outside core/ and agents/, and a path that leaves the root.  No request
\* names a directory that holds entries other than the root, so no move nests
\* directories and the set of filesystems is finite without a bound.
PathInputs ==
    { <<>>, SYSTEM_MD, <<"a", "g", "e", "n", "t", "s", "/", "a", ".", "m", "d">>, <<"x", ".", "m", "d">>, <<".", ".", "/", "s">> }

Contents == { <<>>, <<"x">> }

NoParams == [name |-> NONE, uri |-> NONE, protocolVersion |-> NONE]
Named(n) == [name |-> n, uri |-> NONE, protocolVersion |-> NONE]
At(u) == [name |-> NONE, uri |-> u, protocolVersion |-> NONE]
Request(m, ps) == [method |-> m, params |-> ps]

Payloads ==
    {Request(m, NoParams) : m \in
        {"initialize", "notifications/initialized", "notifications/cancelled",
         "logging/setLevel", "tools/list", "tools/call", "resources/subscribe",
         "resources/unsubscribe", "ping", "prompts/list", "prompts/get",
         "resources/templates/list", "resources/list", "resources/read",
         "Ping", "None"}}
    \cup {Request(m, NoParams) : m \in
            {"", "PING", "ping ", "pin", "tools/List", "/ping"}}
    \cup {Request(m, ps) : m \in
            {"notifications/initialized", "notifications/cancelled",
             "logging/setLevel", "resources/subscribe", "resources/unsubscribe",
             "ping", "resources/Read"},
                           ps \in {Named(FOCAL_RULES), At(FOCAL_URI \o <<".",
          ".", "/", "s">>)}}
    \cup {Request("initialize", [NoParams EXCEPT !.protocolVersion = <<"v",
          "1">>])}
    \cup {Request("tools/call", Named(n)) : n \in {FOCAL_RULES, <<"b", "o",
          "g", "u", "s">>}}
    \cup {Request("prompts/get", Named(n)) : n \in
            {<<>>, <<"c", "o", "r", "e", ".", "s", "y", "s", "t", "e", "m">>, <<"a", "g", "e", "n", "t", "s", ".", "a">>, <<"x">>, CORE_DIR}}
    \cup {Request("resources/read", At(u)) : u \in
            {FOCAL_URI \o SYSTEM_MD, FOCAL_URI \o <<"x", ".", "m", "d">>, FOCAL_URI \o <<
          ".", ".", "/", "s">>,
             FOCAL_URI \o CORE_DIR, <<"f", "o", "c", "a", "l", ":", "/", "/",
          "x", ".", "m", "d">>}}

\* the payloads posted to /mcp: the endpoint tells the dispatcher's outcomes
\* apart by their kind only, and these give every kind, answers of the list and
\* read methods among them
McpPayloads ==
    {Request(m, NoParams) : m \in {"ping", "prompts/list", "prompts/get", "None"}}
    \cup {Request("tools/call", Named(<<"b", "o", "g", "u", "s">>))}
    \cup {Request("resources/read", At(u)) : u \in
            {FOCAL_URI \o SYSTEM_MD, FOCAL_URI \o <<".", ".", "/", "s">>, FOCAL_URI \o CORE_DIR}}

\* the id of a payload: absent, a text, the empty text
Ids == { NONE, <<"7">>, <<>> }

WithId(payload, id) ==
    [method |-> payload.method, params |-> payload.params, id |-> id]

Enumerating == {"initialize", "tools/call", "prompts/list", "resources/list"}

\* the orders in which list_files may yield the files of S: the directory order is
\* the operating system's.  Larger sets are taken in ascending and in descending
\* order of their paths.
Enumerations(S) ==
    IF Cardinality(S) <= MaxPermuted THEN Orderings(S)
    ELSE LET up == SortPaths(SetToSeq(S))
         IN  {up, Reversed(up)}

EnumerationsFor(f, payload) ==
    IF payload.method \in Enumerating THEN Enumerations(list_files(f))
    ELSE {SetToSeq(list_files(f))}

----------------------------------------------------------------------------
(* the state machine *)

Idle == [op |-> "idle", args |-> <<>>, out |-> "", ret |-> <<>>,
         pre |-> <<>>, bc |-> FALSE, reads |-> {}]

Call(op, args, o, pre) ==
    [op |-> op, args |-> args, out |-> o.out, ret |-> o.ret,
     pre |-> pre, bc |-> o.bc, reads |-> o.reads]

\* app.py runs workspace.ensure() when the process starts
Started(f) ==
    LET e == ensure(f)
    IN  Outcome(IF e.exc = "none" THEN "ok" ELSE e.exc, NoRet, e.fs, FALSE, {})

Ready == running /\ last = Idle

\* no websocket has been opened
NoChannel ==
    /\ clients = {}
    /\ sockets = <<>>
    /\ failed = {}
    /\ job = NoJob
    /\ lock = FREE
    /\ tasks = <<>>

Init ==
    /\ fs = Started(BareFs).fs
    /\ running = TRUE
    /\ last = Call("ensure", <<>>, Started(BareFs), BareFs)
    /\ arg = <<>>
    /\ NoChannel

\* a call is answered by one route: the filesystem it leaves and its response
Serve(op, args, o) ==
    /\ fs' = o.fs
    /\ last' = Call(op, args, o, fs)
    /\ IF o.bc
       THEN \E order \in Orderings(clients) :
                job' = Rounds([NoJob EXCEPT !.started = clients],
                              broadcast_list_changed, order)
       ELSE job' = NoJob
    /\ UNCHANGED <<running, arg, clients, sockets, failed, lock, tasks>>

\* the process is started again; a start that raises leaves no server running
Ensure ==
    /\ last = Idle
    /\ LET o == Started(fs)
       IN  /\ fs' = o.fs
           /\ running' = (o.out = "ok")
           /\ last' = Call("ensure", <<>>, o, fs)
    /\ UNCHANGED <<arg, notif>>

\* the routes, each for a request whose inputs are drawn from the given sets
ReadFile(paths) ==
    Ready /\ \E path \in paths : Serve("read_file", <<path>>, read_file(fs, path))

WriteFile(paths, contents) ==
    Ready /\ \E path \in paths, content \in contents :
                Serve("write_file", <<path, content>>, write_file(fs, path, content))

DeleteFile(paths) ==
    Ready /\ \E path \in paths : Serve("delete_file", <<path>>, delete_file(fs, path))

CreateFolder(paths) ==
    Ready /\ \E path \in paths : Serve("create_folder", <<path>>, create_folder(fs, path))

DeleteFolder(paths) ==
    Ready /\ \E path \in paths : Serve("delete_folder", <<path>>, delete_folder(fs, path))

MoveEntry(paths) ==
    Ready /\ \E src \in paths, dst \in paths :
                Serve("move_entry", <<src, dst>>, move_entry(fs, src, dst))

Status ==
    Ready /\ \E enum \in Enumerations(list_files(fs)) :
                Serve("status", <<>>, status(fs, enum))

\* the status route with the files yielded in any order whatever
StatusInAnyOrder ==
    Ready /\ \E enum \in Orderings(list_files(fs)) :
                Serve("status", <<>>, status(fs, enum))

Handle(payloads) ==
    Ready /\ \E payload \in payloads : \E enum \in EnumerationsFor(fs, payload) :
                LET d == dispatch(fs, enum, payload)
                IN  Serve("handle", <<payload>>,
                          Outcome(d.resp.kind, d.resp, d.fs, FALSE, d.reads))

Posted(r) ==
    Outcome("sent", [status_code |-> r.status_code, body |-> r.body,
                     handled |-> r.handled], r.fs, FALSE, r.reads)

Mcp(payloads, ids) ==
    Ready /\ \E payload \in payloads, id \in ids :
             \E enum \in EnumerationsFor(fs, payload) :
                Serve("mcp", <<WithId(payload, id)>>,
                      Posted(mcp(fs, enum, WithId(payload, id))))

\* the response is sent; the handlers keep nothing of a call
Reply ==
    /\ last # Idle
    /\ job.phase # "sending"
    /\ last' = Idle
    /\ job' = NoJob
    /\ UNCHANGED <<fs, running, arg, clients, sockets, failed, lock, tasks>>

Next ==
    \/ Ensure
    \/ ReadFile(PathInputs)
    \/ WriteFile(PathInputs, Contents)
    \/ DeleteFile(PathInputs)
    \/ CreateFolder(PathInputs)
    \/ DeleteFolder(PathInputs)
    \/ MoveEntry(PathInputs)
    \/ Status
    \/ Handle(Payloads)
    \/ Mcp(McpPayloads, Ids)
    \/ Reply

Spec == Init /\ [][Next]_vars

----------------------------------------------------------------------------
(* resolve_safe on its own: every short path text over "/", "." and the   *)
(* root's own name, so that a path can leave the root, come back into it, *)
(* or reach a sibling whose name starts with the root's name              *)

MaxPathLen == 7

Texts(alphabet, n) == UNION {[1..k -> alphabet] : k \in 0..n}

ResolveInputs == Texts({"/", ".", "w"}, MaxPathLen)

InitResolve ==
    /\ fs = Started(BareFs).fs
    /\ running = TRUE
    /\ last = Idle
    /\ arg \in ResolveInputs
    /\ NoChannel

ResolveSafe ==
    /\ last = Idle
    /\ LET r == resolve_safe(arg)
       IN  last' = [op |-> "resolve_safe", args |-> <<arg>>,
                    out |-> IF r.ok THEN "ok" ELSE r.exc, ret |-> r.val,
                    pre |-> <<>>, bc |-> FALSE, reads |-> {}]
    /\ UNCHANGED <<fs, running, arg, notif>>

NextResolve == ResolveSafe

SpecResolve == InitResolve /\ [][NextResolve]_vars

----------------------------------------------------------------------------
(* the fingerprint on its own: an emptied workspace, files whose names hold *)
(* the separator byte, and the status route with every enumeration order   *)

FpPaths == { <<"a">>, <<"a", "|", "b">>, <<"b", "|", "a">>, <<"a", "|", "b", "|", "a">> }
FpContents == { <<>>, <<"|">> }

InitFp ==
    /\ fs = mkdir(BareFs, ROOT).fs
    /\ running = TRUE
    /\ last = Idle
    /\ arg = <<>>
    /\ NoChannel

NextFp ==
    \/ WriteFile(FpPaths, FpContents)
    \/ DeleteFile(FpPaths)
    \/ MoveEntry(FpPaths)
    \/ StatusInAnyOrder
    \/ Reply

SpecFp == InitFp /\ [][NextFp]_vars

----------------------------------------------------------------------------
(* the prompt-name mapping on its own: every .md file under core/ or agents/ *)
(* whose name, folders included, is a short text over "a", ".", "/", "m", "d" *)

MaxNameLen == 4

IsFilePath(rel) ==
    \A i \in 1..Len(Split(rel, SEP)) : Split(rel, SEP)[i] \notin {<<>>, DOT, DOTDOT}

PromptPaths ==
    {rel \in {dir \o <<"/">> \o body \o MD :
                dir \in {CORE_DIR, AGENTS_DIR},
                body \in Texts({"a", ".", "/", "m", "d"}, MaxNameLen)} :
        IsFilePath(rel)}

InitPrompt ==
    /\ fs = Started(BareFs).fs
    /\ running = TRUE
    /\ last = Idle
    /\ arg \in PromptPaths
    /\ NoChannel

PromptRoundTrip ==
    /\ last = Idle
    /\ LET name == _prompt_name_for_path(arg)
       IN  last' = [op |-> "prompt_round_trip", args |-> <<arg>>,
                    out |-> name, ret |-> _path_for_prompt_name(name),
                    pre |-> <<>>, bc |-> FALSE, reads |-> {}]
    /\ UNCHANGED <<fs, running, arg, notif>>

\* the names that prompts/list returns in a workspace state
ListedNames(f) ==
    LET listed == prompts_list(SetToSeq(list_files(f))).value
    IN  {listed[i].key : i \in 1..Len(listed)}

\* a client calls prompts/get with a name that prompts/list has just returned
GetListed ==
    Handle({Request("prompts/get", Named(name)) : name \in ListedNames(fs)})

NextPrompt ==
    \/ PromptRoundTrip
    \/ WriteFile({arg}, Contents)
    \/ GetListed
    \/ Reply

SpecPrompt == InitPrompt /\ [][NextPrompt]_vars

----------------------------------------------------------------------------
(* the notifier with push channels: websockets connect, lose their peer and *)
(* are left by mcp_ws while files are written and deleted; the sends of a   *)
(* broadcast are awaited one by one, and the websockets' events fall        *)
(* between them.  Requests are served one after the other.                  *)

Channels == {"ws1", "ws2", "ws3"}

NotifyPaths == { <<"x", ".", "m", "d">> }
NotifyPayloads == {Request("resources/list", NoParams)}

InitNotify ==
    /\ fs = mkdir(BareFs, ROOT).fs
    /\ running = TRUE
    /\ last = Idle
    /\ arg = <<>>
    /\ clients = {}
    /\ sockets = [ws \in Channels |-> "new"]
    /\ failed = {}
    /\ job = NoJob
    /\ lock = FREE
    /\ tasks = <<>>

\* mcp_ws: notifier.connect accepts the websocket and registers it
Connect(ws) ==
    /\ sockets[ws] = "new"
    /\ sockets' = [sockets EXCEPT ![ws] = "open"]
    /\ clients' = connect(clients, ws)
    /\ UNCHANGED <<fs, running, last, arg, failed, job, lock, tasks>>

\* websocket.accept raises: mcp_ws ends before the websocket is registered
AcceptFails(ws) ==
    /\ sockets[ws] = "new"
    /\ sockets' = [sockets EXCEPT ![ws] = "closed"]
    /\ UNCHANGED <<fs, running, last, arg, clients, failed, job, lock, tasks>>

\* the peer of an open websocket goes away
PeerLeaves(ws) ==
    /\ sockets[ws] = "open"
    /\ sockets' = [sockets EXCEPT ![ws] = "ended"]
    /\ UNCHANGED <<fs, running, last, arg, clients, failed, job, lock, tasks>>

\* mcp_ws: receive_text raises, the websocket is unregistered, mcp_ws returns
ReceiveRaises(ws) ==
    /\ sockets[ws] = "ended"
    /\ sockets' = [sockets EXCEPT ![ws] = "closed"]
    /\ clients' = disconnect(clients, ws)
    /\ UNCHANGED <<fs, running, last, arg, failed, job, lock, tasks>>

\* _broadcast: one send_json is awaited; if it raises the client is
\* unregistered; the loop goes on
Send ==
    /\ job.phase = "sending"
    /\ LET ws == Head(job.todo)
       IN  \E ok \in SendOutcomes(sockets[ws]) :
             /\ clients' = IF ok THEN clients ELSE disconnect(clients, ws)
             /\ failed' = IF ok THEN failed ELSE failed \cup {ws}
             /\ \E order \in Orderings(clients') :
                    job' = after_send(
                             [job EXCEPT !.log = Append(@, [to |-> ws,
                                                 method |-> Head(job.methods),
                                                 ok |-> ok])],
                             ok, order)
    /\ UNCHANGED <<fs, running, last, arg, sockets, lock, tasks>>

NextNotify ==
    \/ WriteFile(NotifyPaths, {<<>>})
    \/ DeleteFile(NotifyPaths)
    \/ Handle(NotifyPayloads)
    \/ \E ws \in Channels : Connect(ws)
    \/ \E ws \in Channels : AcceptFails(ws)
    \/ \E ws \in Channels : PeerLeaves(ws)
    \/ \E ws \in Channels : ReceiveRaises(ws)
    \/ Send
    \/ Reply

\* the event loop runs mcp_ws once its receive can raise, and a broadcast once
\* its send has finished
SpecNotify ==
    /\ InitNotify
    /\ [][NextNotify]_vars
    /\ \A ws \in Channels : WF_vars(ReceiveRaises(ws))
    /\ WF_vars(Send)

----------------------------------------------------------------------------
(* the notifier under concurrent requests: each websocket is served by a    *)
(* coroutine mcp_ws, each of two requests that have changed a file runs     *)
(* broadcast_list_changed, and the event loop switches between them at      *)
(* every await                                                              *)

\* the websockets of these runs
Listeners == {"ws1", "ws2"}

Broadcasters == {"b1", "b2"}

InitLock ==
    /\ fs = mkdir(BareFs, ROOT).fs
    /\ running = TRUE
    /\ last = Idle
    /\ arg = <<>>
    /\ clients = {}
    /\ sockets = <<>>
    /\ failed = {}
    /\ job = NoJob
    /\ lock = FREE
    /\ tasks = [t \in Listeners \cup Broadcasters |->
                    IF t \in Listeners THEN NoTask("new") ELSE NoTask("idle")]

\* mcp_ws, notifier.connect: websocket.accept returns, or it raises and mcp_ws
\* ends
Accept(ws) ==
    /\ tasks[ws].pc = "new"
    /\ \E ok \in BOOLEAN :
          tasks' = [tasks EXCEPT ![ws] =
                      IF ok THEN [@ EXCEPT !.pc = "lock", !.doing = "connect"]
                      ELSE [@ EXCEPT !.pc = "end"]]
    /\ UNCHANGED <<fs, running, last, arg, clients, sockets, failed, job, lock>>

\* mcp_ws: receive_text raises and notifier.disconnect is called
Receive(ws) ==
    /\ tasks[ws].pc = "receive"
    /\ tasks' = [tasks EXCEPT ![ws] = [@ EXCEPT !.pc = "lock", !.doing = "disconnect"]]
    /\ UNCHANGED <<fs, running, last, arg, clients, sockets, failed, job, lock>>

\* a route that has changed a file calls broadcast_list_changed
Begin(b) ==
    /\ tasks[b].pc = "idle"
    /\ tasks' = [tasks EXCEPT ![b] = Round([@ EXCEPT !.methods = broadcast_list_changed])]
    /\ UNCHANGED <<fs, running, last, arg, clients, sockets, failed, job, lock>>

\* a with block of the lock.  Its entry is an await, at which the event loop
\* may run other tasks; it is entered once the lock is free and left in the
\* same step, since it holds no await: connect adds the websocket, disconnect
\* discards it (the task's own websocket in mcp_ws, the client whose send
\* raised in _broadcast), _broadcast takes list(self._clients)
WithLock(t) ==
    /\ tasks[t].pc = "lock"
    /\ lock = FREE
    /\ LET held == acquire(lock, t)
           k == tasks[t]
           ws == IF t \in Listeners THEN t ELSE Head(k.todo)
       IN  /\ held = t
           /\ lock' = release(held, t)
           /\ CASE k.doing = "connect" ->
                    /\ clients' = connect(clients, ws)
                    /\ tasks' = [tasks EXCEPT ![t] = [k EXCEPT !.pc = "receive", !.doing = ""]]
                [] k.doing = "disconnect" ->
                    /\ clients' = disconnect(clients, ws)
                    /\ tasks' = [tasks EXCEPT ![t] =
                                  IF t \in Listeners
                                  THEN [k EXCEPT !.pc = "end", !.doing = ""]
                                  ELSE NextClient([k EXCEPT !.dropped = @ \cup {ws}])]
                [] k.doing = "snapshot" ->
                    /\ clients' = clients
                    /\ \E order \in Orderings(clients) :
                          tasks' = [tasks EXCEPT ![t] =
                                      IF order = <<>>
                                      THEN Round([k EXCEPT !.methods = Tail(@)])
                                      ELSE [k EXCEPT !.pc = "send", !.doing = "",
                                                     !.todo = order]]
    /\ UNCHANGED <<fs, running, last, arg, sockets, failed, job>>

\* _broadcast: the awaited send_json returns, or it raises and disconnect is
\* called for the client
SendJson(b) ==
    /\ tasks[b].pc = "send"
    /\ LET ws == Head(tasks[b].todo)
       IN  \E ok \in SendOutcomes(IF tasks[ws].pc = "receive" THEN "open" ELSE "closed") :
             tasks' = [tasks EXCEPT ![b] =
                         IF ok THEN NextClient(@)
                         ELSE [@ EXCEPT !.pc = "lock", !.doing = "disconnect"]]
    /\ UNCHANGED <<fs, running, last, arg, clients, sockets, failed, job, lock>>

NextLock ==
    \/ \E ws \in Listeners : Accept(ws)
    \/ \E ws \in Listeners : Receive(ws)
    \/ \E b \in Broadcasters : Begin(b)
    \/ \E t \in Listeners \cup Broadcasters : WithLock(t)
    \/ \E b \in Broadcasters : SendJson(b)

\* the event loop resumes a broadcast whose send has finished, and one that is
\* before a with block whenever the lock is free
SpecLock ==
    /\ InitLock
    /\ [][NextLock]_vars
    /\ \A b \in Broadcasters : WF_vars(WithLock(b)) /\ WF_vars(SendJson(b))

----------------------------------------------------------------------------
(* the properties *)

\* where a path text lands when it is followed name by name from a directory:
\* an empty name and "." stay, ".." goes to the parent, any other name goes down
Step(where, name) ==
    IF name \in {<<>>, DOT} THEN where
    ELSE IF name = DOTDOT THEN Parent(where)
    ELSE Append(where, name)

RECURSIVE Follow(_, _, _)
Follow(where, name, rest) ==
    IF rest = <<>> THEN Step(where, name)
    ELSE IF Head(rest) = "/" THEN Follow(Step(where, name), <<>>, Tail(rest))
    ELSE Follow(where, Append(name, Head(rest)), Tail(rest))

Lands(p) == Follow(ROOT, <<>>, p)
Escapes(p) == ~IsPrefix(ROOT, Lands(p))

\* C1: resolve_safe(p) raises the path-traversal error when p, followed from the
\* root, lands outside the root, and otherwise returns the place where p lands,
\* which is the root or a descendant of the root.
ResolveSafeContract ==
    last.op = "resolve_safe" =>
        LET p == last.args[1]
        IN  /\ Escapes(p) => last.out = "ValueError"
            /\ ~Escapes(p) => /\ last.out = "ok"
                              /\ last.ret = Lands(p)
                              /\ IsPrefix(ROOT, last.ret)

\* a path that goes down into the root first and then leaves it was rejected
ResolveSafeRejected ==
    /\ last.op = "resolve_safe"
    /\ last.args[1] # <<>>
    /\ Head(last.args[1]) = "w"
    /\ Escapes(last.args[1])
    /\ last.out = "ValueError"

\* what lies outside the workspace root
Outside(f) == [q \in {r \in DOMAIN f : ~IsPrefix(ROOT, r)} |-> f[q]]

\* the path texts a call names
PathsNamed(call) ==
    CASE call.op \in {"read_file", "delete_file", "create_folder", "delete_folder"} ->
            {call.args[1]}
      [] call.op = "write_file" -> {call.args[1]}
      [] call.op = "move_entry" -> {call.args[1], call.args[2]}
      [] call.op = "handle" ->
            LET m == call.args[1].method
                ps == call.args[1].params
            IN  IF m = "resources/read" /\ StartsWith(ps.uri, FOCAL_URI)
                THEN {SubSeq(ps.uri, Len(FOCAL_URI) + 1, Len(ps.uri))}
                ELSE IF m = "prompts/get" /\ ~Falsy(_path_for_prompt_name(ps.name))
                     THEN {_path_for_prompt_name(ps.name)}
                     ELSE {}
      [] OTHER -> {}

\* C2: whatever calls were made, everything outside the workspace root is as it
\* was before the server first started, no call has read a file outside the
\* root, and a call that names a path landing outside the root was rejected and
\* left the filesystem as it was.
NoAccessOutsideRoot ==
    /\ Outside(fs) = Outside(BareFs)
    /\ \A q \in last.reads : IsPrefix(ROOT, q)
    /\ \A p \in PathsNamed(last) :
            Escapes(p) => /\ last.out \in {"ValueError", "exception"}
                          /\ last.out = "exception" => last.ret.message = "ValueError"
                          /\ fs = last.pre

\* a move whose destination is the file outside the root was rejected
TraversalRejected ==
    /\ last.op = "move_entry"
    /\ ~Escapes(last.args[1]) /\ exists(last.pre, Lands(last.args[1]))
    /\ Lands(last.args[2]) = SECRET
    /\ last.out = "ValueError"

\* C3: after initialization the workspace root and its subdirectories core/ and
\* agents/ exist as directories in every state (refuted: a folder deletion or a
\* move removes them).
RootAndSubdirsExist ==
    /\ is_dir(fs, ROOT)
    /\ is_dir(fs, core)
    /\ is_dir(fs, agents)

\* the files at or below the root
FilesAt(f) == {q \in DOMAIN f : IsPrefix(ROOT, q) /\ f[q].kind = "file"}

DefaultPaths == {PathJoin(ROOT, DEFAULT_CORE_FILES[i][1]) : i \in 1..Len(DEFAULT_CORE_FILES)}

\* ensure() keeps every existing file with its content, and a second call right
\* after it changes nothing
EnsureKeepsFiles ==
    last.op = "ensure" =>
        /\ \A q \in FilesAt(last.pre) : q \in DOMAIN fs /\ fs[q] = last.pre[q]
        /\ ensure(fs).fs = fs

\* C4: ensure() called on a workspace without any file leaves exactly the four
\* default files core/system.md, core/style.md, core/safety.md and
\* core/tool_policy.md, each with its default content (refuted: a default path
\* occupied by a directory is skipped).
EnsureSeedsFourDefaults ==
    (last.op = "ensure" /\ FilesAt(last.pre) = {}) =>
        /\ FilesAt(fs) = DefaultPaths
        /\ \A i \in 1..Len(DEFAULT_CORE_FILES) :
                fs[PathJoin(ROOT, DEFAULT_CORE_FILES[i][1])].content
                    = DEFAULT_CORE_FILES[i][2]

\* the workspace as the fingerprint is meant to see it: each file's relative
\* path with its content
Pairs(f) == {<<relative(q), f[q].content>> : q \in list_files(f)}

\* the bytes that rules_fingerprint feeds to the digest in a workspace state
DigestInput(f) == rules_fingerprint(f, SetToSeq(list_files(f))).rulesHash

\* C5: a write, a deletion or a move that changes the workspace's set of
\* (relative path, content) pairs changes the byte stream that rules_fingerprint
\* feeds to the digest (refuted: the separator byte may occur in a path or in a
\* content, so two different workspaces can feed the same bytes).
FingerprintTracksChanges ==
    (/\ last.op \in {"write_file", "delete_file", "move_entry"}
     /\ Pairs(last.pre) # Pairs(fs))
        => DigestInput(last.pre) # DigestInput(fs)

PromptNameRoundTrip ==
    last.op = "prompt_round_trip" => last.ret = last.args[1]

\* the files that lie under core/ or under agents/
PromptFiles(f) ==
    {q \in list_files(f) : IsProperPrefix(core, q) \/ IsProperPrefix(agents, q)}

Keys(entries) == {entries[i].key : i \in 1..Len(entries)}

NothingBelowRoot(f) ==
    /\ \A q \in DOMAIN f : ~IsProperPrefix(ROOT, q)
    /\ ROOT \in DOMAIN f => is_dir(f, ROOT)

DefaultPromptNames ==
    << <<"c", "o", "r", "e", ".", "s", "a", "f", "e", "t", "y">>, <<"c", "o", "r", "e", ".", "s", "t", "y", "l", "e">>, <<"c", "o", "r", "e", ".", "s", "y",
          "s", "t", "e", "m">>, <<"c", "o", "r",
          "e", ".", "t", "o", "o", "l", "_", "p", "o", "l", "i", "c", "y">> >>

\* C9: prompts/list returns its entries in ascending order of their names, and
\* after ensure() on an empty root it returns exactly core.safety, core.style,
\* core.system and core.tool_policy, in that order, however the files are
\* enumerated.
PromptsListSorted ==
    /\ (last.op = "handle" /\ last.args[1].method = "prompts/list") =>
            \A i, j \in 1..Len(last.ret.value) :
                i < j => ~StrLess(last.ret.value[j].key, last.ret.value[i].key)
    /\ (last.op = "ensure" /\ NothingBelowRoot(last.pre)) =>
            \A enum \in Orderings(list_files(fs)) :
                LET v == prompts_list(enum).value
                IN  [i \in 1..Len(v) |-> v[i].key] = DefaultPromptNames

\* ensure() ran on a root directory that was there and empty
EnsuredOnEmptyRoot ==
    /\ last.op = "ensure"
    /\ is_dir(last.pre, ROOT)
    /\ NothingBelowRoot(last.pre)

\* C10: a request handled by MCPHandler.handle leaves every file and directory
\* as it was, whether it returns a result or raises.
DispatcherLeavesWorkspace ==
    last.op = "handle" => fs = last.pre

\* the dispatcher raised for a request while default files were missing
DispatcherRaised ==
    /\ last.op = "handle"
    /\ last.out # "result"
    /\ ~is_file(fs, PathJoin(ROOT, SYSTEM_MD))

\* C11: MCPHandler.handle returns a result or raises a JsonRpcError for every
\* request in every workspace state (refuted: a path that leaves the root or
\* names a directory raises another exception).
DispatcherRaisesStructured ==
    last.op = "handle" => last.out \in {"result", "JsonRpcError"}

\* the request of a call to POST /mcp, and whether it reads a resource whose
\* path leaves the root
IsTraversalRead(payload) ==
    /\ payload.method = "resources/read"
    /\ StartsWith(payload.params.uri, FOCAL_URI)
    /\ Escapes(SubSeq(payload.params.uri, Len(FOCAL_URI) + 1,
                      Len(payload.params.uri)))

\* C12: a resources/read request with an id, whose URI starts with focal:/// and
\* whose path leaves the root, is answered with an error of code -32602
\* (refuted: the answer is -32603 "Internal error").
TraversalAnsweredInvalidParams ==
    (/\ last.op = "mcp"
     /\ last.args[1].id # NONE
     /\ IsTraversalRead(last.args[1]))
        => /\ "error" \in DOMAIN last.ret.body
           /\ last.ret.body.error.code = -32602

\* what the dispatcher does with the payload of the call, in the state the call
\* was made in
Dispatched(call) ==
    handle(call.pre, SetToSeq(list_files(call.pre)), call.args[1])

ToolsCallContract ==
    (last.op = "handle" /\ last.args[1].method = "tools/call") =>
        IF last.args[1].params.name = FOCAL_RULES
        THEN /\ last.out = "result"
             /\ Len(last.ret.value) = 1
             /\ last.ret.value[1].type = "text"
        ELSE /\ last.out = "JsonRpcError"
             /\ last.ret.code = -32602
             /\ last.ret.message = "Unknown tool"

\* tools/call without a name failed while the workspace root was no directory
UnnamedToolRefused ==
    /\ last.op = "handle"
    /\ last.args[1].method = "tools/call"
    /\ last.args[1].params.name = NONE
    /\ last.out = "JsonRpcError"
    /\ ~is_dir(fs, ROOT)

\* the text that a successful tools/call returns in a workspace state
ToolsText(f) ==
    tools_call(f, SetToSeq(list_files(f)), Named(FOCAL_RULES)).value[1].text

EndsWith(s, t) ==
    Len(s) >= Len(t) /\ SubSeq(s, Len(s) - Len(t) + 1, Len(s)) = t

\* C19: the instructions that initialize returns are the runtime directive
\* followed by exactly the text that tools/call returns in the same workspace
\* state (refuted: initialize puts one newline between the header line and the
\* sections, tools/call puts two).
InitializeEmbedsToolsText ==
    (last.op = "handle" /\ last.args[1].method = "initialize") =>
        LET ins == last.ret.value.instructions
            text == ToolsText(fs)
        IN  /\ EndsWith(ins, text)
            /\ Strip(SubSeq(ins, 1, Len(ins) - Len(text))) = Strip(RUNTIME_DIRECTIVE)

\* C20: prompts/get fails with "Missing prompt name" for an absent or empty
\* name, else with "Unknown prompt name" for a name that starts neither with
\* core. nor with agents., else with "Prompt not found" when the mapped path is
\* not an existing file, each with code -32602, and else returns the file's
\* content as one system message (refuted: a directory at the mapped path
\* raises IsADirectoryError).
PromptsGetOrder ==
    (last.op = "handle" /\ last.args[1].method = "prompts/get") =>
        LET name == last.args[1].params.name
            refused(message) == /\ last.out = "JsonRpcError"
                                /\ last.ret.code = -32602
                                /\ last.ret.message = message
        IN  IF name = NONE \/ name = <<>> THEN refused("Missing prompt name")
            ELSE IF ~(\/ StartsWith(name, CORE_DIR \o <<".">>)
                      \/ StartsWith(name, AGENTS_DIR \o <<".">>))
            THEN refused("Unknown prompt name")
            ELSE IF ~is_file(fs, Lands(ReplaceChar(name, ".", "/") \o MD))
            THEN refused("Prompt not found")
            ELSE /\ last.out = "result"
                 /\ last.ret.value.messages =
                        << [role |-> "system",
                            content |-> fs[Lands(ReplaceChar(name, ".", "/") \o MD)].content] >>

MutatingOps ==
    {"write_file", "delete_file", "create_folder", "delete_folder", "move_entry"}

\* C14: a file-CRUD call that changed the filesystem, be it in part only, has
\* called broadcast_list_changed (refuted: a move whose rename fails after the
\* destination's parent folders were created raises before the broadcast).
EveryMutationBroadcasts ==
    (last.op \in MutatingOps /\ fs # last.pre) => last.bc

\* the events that the sends of the broadcast have delivered to a websocket
RECURSIVE Delivered(_, _)
Delivered(log, ws) ==
    IF log = <<>> THEN <<>>
    ELSE IF Head(log).to = ws /\ Head(log).ok
         THEN <<Head(log).method>> \o Delivered(Tail(log), ws)
         ELSE Delivered(Tail(log), ws)

ListChangedPair == <<PROMPTS_LIST_CHANGED, RESOURCES_LIST_CHANGED>>

UriOf(path) == FOCAL_URI \o path

\* C15: after a new file is written, resources/list shows its URI; after the
\* file is deleted, resources/list no longer shows it; and when either call is
\* through, its one broadcast has delivered the prompts event and then the
\* resources event, once each, to every websocket that was registered when it
\* started and still is, and no event twice to any websocket.
WriteListDeleteList ==
    /\ (last.op = "handle" /\ last.args[1].method = "resources/list") =>
            \A path \in NotifyPaths :
                is_file(fs, Lands(path)) <=> UriOf(path) \in Keys(last.ret.value)
    /\ (last.op = "write_file" /\ ~exists(last.pre, Lands(last.args[1]))) =>
            /\ last.out = "ok" /\ last.bc /\ job.phase # "idle"
            /\ \A enum \in Orderings(list_files(fs)) :
                    UriOf(last.args[1]) \in Keys(resources_list(enum).value)
    /\ (last.op = "delete_file" /\ is_file(last.pre, Lands(last.args[1]))) =>
            /\ last.out = "ok" /\ last.bc /\ job.phase # "idle"
            /\ \A enum \in Orderings(list_files(fs)) :
                    UriOf(last.args[1]) \notin Keys(resources_list(enum).value)
    /\ (last.op \in {"write_file", "delete_file"} /\ job.phase = "done") =>
            /\ \A ws \in job.started \cap clients :
                    Delivered(job.log, ws) = ListChangedPair
            /\ \A ws \in Channels :
                    Delivered(job.log, ws) \in
                        {<<>>, <<PROMPTS_LIST_CHANGED>>,
                         <<RESOURCES_LIST_CHANGED>>, ListChangedPair}

\* the deletion of the file is through and two websockets have got the pair
DeletionAnnounced ==
    /\ last.op = "delete_file"
    /\ job.phase = "done"
    /\ Cardinality({ws \in job.started \cap clients :
                        Delivered(job.log, ws) = ListChangedPair}) >= 2

\* the websockets a send to which has raised during the broadcast
Dropped(log) == {log[i].to : i \in {k \in 1..Len(log) : ~log[k].ok}}

\* C16: a websocket whose send fails is unregistered, and when the broadcast is
\* through, every websocket that was registered when it started and still is
\* has got the prompts event and then the resources event, wherever the failing
\* websockets stood in the snapshots and however many failed.
FailedSendDoesNotAbort ==
    /\ failed \cap clients = {}
    /\ job.phase # "idle" => Dropped(job.log) \cap clients = {}
    /\ job.phase = "done" =>
            \A ws \in job.started \cap clients :
                Delivered(job.log, ws) = ListChangedPair

\* the first send of a broadcast failed, a second websocket failed too, and a
\* third got both events
BroadcastOutlivedFailures ==
    /\ job.phase = "done"
    /\ job.log # <<>>
    /\ ~job.log[1].ok
    /\ Cardinality(Dropped(job.log)) >= 2
    /\ \E ws \in job.started \cap clients :
            Delivered(job.log, ws) = ListChangedPair

\* C17: a websocket is registered exactly while it is connected (its connect
\* is complete, mcp_ws has not unregistered it) and no send to it has failed;
\* it enters the set only at its connect; and once its connection has ended it
\* leaves the set.
ChannelLifetime ==
    /\ [](\A ws \in Channels :
            ws \in clients <=> (sockets[ws] \in {"open", "ended"} /\ ws \notin failed))
    /\ [][\A ws \in Channels :
            (ws \in clients' /\ ws \notin clients) => sockets[ws] = "new"]_vars
    /\ \A ws \in Channels : (sockets[ws] = "ended") ~> (ws \notin clients)

\* one websocket was unregistered by mcp_ws, another by a failed send while
\* it was open, and a third never connected
ChannelsUnregistered ==
    \E a, b, c \in Channels :
        /\ sockets[a] = "closed" /\ a \notin failed
        /\ sockets[b] = "open" /\ b \in failed /\ b \notin clients
        /\ sockets[c] = "new" /\ c \notin clients

\* C21: resources/read fails with "Invalid resource URI" when the URI is absent
\* or does not start with focal:///, else with "Resource not found" when the
\* path after the prefix does not name an existing file under the root, each
\* with code -32602, and else returns the content of that file (refuted: a path
\* that leaves the root raises ValueError, and a directory raises
\* IsADirectoryError).
ResourcesReadContract ==
    (last.op = "handle" /\ last.args[1].method = "resources/read") =>
        LET uri == last.args[1].params.uri
            rest == SubSeq(uri, Len(FOCAL_URI) + 1, Len(uri))
            refused(message) == /\ last.out = "JsonRpcError"
                                /\ last.ret.code = -32602
                                /\ last.ret.message = message
        IN  IF uri = NONE \/ ~StartsWith(uri, FOCAL_URI)
            THEN refused("Invalid resource URI")
            ELSE IF Escapes(rest) \/ ~is_file(fs, Lands(rest))
            THEN refused("Resource not found")
            ELSE /\ last.out = "result"
                 /\ last.ret.value =
                        << [uri |-> uri, mimeType |-> "text/markdown",
                            text |-> fs[Lands(rest)].content] >>

\* the methods that MCPHandler.handle knows, and those among them that do nothing
MethodTable ==
    {"initialize", "notifications/initialized", "notifications/cancelled",
     "logging/setLevel", "tools/list", "tools/call", "resources/subscribe",
     "resources/unsubscribe", "ping", "prompts/list", "prompts/get",
     "resources/templates/list", "resources/list", "resources/read"}

NoOpMethods ==
    {"notifications/initialized", "notifications/cancelled", "logging/setLevel",
     "resources/subscribe", "resources/unsubscribe", "ping"}

\* C22: the six no-op methods return an empty result object whatever the params
\* and the workspace state; a method that is not, letter for letter, a name of
\* the table (a missing method included) fails with -32601 "Method not found",
\* and no method of the table does.
DispatchExactAndTotal ==
    last.op = "handle" =>
        LET method == last.args[1].method
        IN  /\ method \in NoOpMethods =>
                /\ last.out = "result"
                /\ last.ret.value = <<>>
            /\ method \notin MethodTable =>
                /\ last.out = "JsonRpcError"
                /\ last.ret.code = -32601
                /\ last.ret.message = "Method not found"
            /\ method \in MethodTable =>
                ~(last.out = "JsonRpcError" /\ last.ret.code = -32601)
            /\ fs = last.pre

\* a method that differs from a table name by its case only, with params that
\* name a path outside the root, was refused while the workspace root was gone
MiscasedMethodRefused ==
    /\ last.op = "handle"
    /\ last.args[1].method = "resources/Read"
    /\ last.args[1].params.uri = FOCAL_URI \o <<".", ".", "/", "s">>
    /\ last.out = "JsonRpcError"
    /\ last.ret.code = -32601
    /\ ~exists(fs, ROOT)

\* C23: the registered set changes only in a step that is a with block of the
\* lock, and a broadcast's snapshot is the registered set of such a step; the
\* lock is free whenever a send is awaited; and every broadcast_list_changed
\* that was called returns, with the lock free, whatever the websockets' tasks
\* and the other broadcast do and whichever sends raise.
LockDiscipline ==
    /\ [][\A t \in DOMAIN tasks :
            (\/ clients' # clients
             \/ (tasks[t].doing = "snapshot" /\ tasks'[t].doing # "snapshot"))
            => \E u \in DOMAIN tasks :
                  /\ tasks[u].pc = "lock" /\ lock = FREE /\ tasks'[u] # tasks[u]
                  /\ \A v \in DOMAIN tasks \ {u} : tasks'[v] = tasks[v]
                  /\ (tasks[u].doing = "snapshot" /\ tasks'[u].pc = "send")
                        => {tasks'[u].todo[i] : i \in 1..Len(tasks'[u].todo)} = clients]_vars
    /\ [](\A t \in DOMAIN tasks : tasks[t].pc \in {"send", "receive", "new"} => lock = FREE)
    /\ \A b \in Broadcasters :
          (tasks[b].pc \notin {"idle", "done"}) ~> (tasks[b].pc = "done" /\ lock = FREE)

\* a broadcast has returned after sends to both websockets raised and it
\* unregistered both, while the other broadcast was awaiting a send
BroadcastReturnedAfterDisconnects ==
    \E b \in Broadcasters, c \in Broadcasters :
        /\ b # c
        /\ tasks[b].pc = "done"
        /\ Cardinality(tasks[b].dropped) >= 2
        /\ tasks[c].pc = "send"
        /\ lock = FREE

\* C24: once a websocket has been removed from the registered set, no broadcast
\* starts a send to it (refuted: a broadcast goes on to every websocket of the
\* snapshot it took before the removal).
NoSendAfterDisconnect ==
    [][(job'.phase = "sending" /\ job' # job)
            => Head(job'.todo) \in clients']_vars

\* C25: prompts/get with a name that prompts/list returns in the same workspace
\* state succeeds and returns the content of the file the name was derived from
\* (refuted: the name of a file with a further dot, or with an inner ".md", maps
\* to another path).
ListGetConsistent ==
    (/\ last.op = "handle"
     /\ last.args[1].method = "prompts/get"
     /\ last.args[1].params.name \in ListedNames(fs))
        => /\ last.out = "result"
           /\ \A q \in PromptFiles(fs) :
                 _prompt_name_for_path(relative(q)) = last.args[1].params.name
                    => last.ret.value.messages[1].content = fs[q].content

====
